---------------------------- MODULE Spec2Model ----------------------------
(***************************************************************************)
(* Model of ownref's main.py: a BibTeX entry is read from --text, a file   *)
(* or standard input, parsed by bibtexparser, and printed as one APA-style *)
(* reference line.                                                         *)
(*                                                                         *)
(* A Python str is modelled as a sequence of one-character strings, so     *)
(* that the regular-expression substitutions, splits and strips of the     *)
(* source are computed character by character.                             *)
(***************************************************************************)
EXTENDS Integers, Sequences, FiniteSets, TLC

VARIABLES
    pc,           \* position of the running invocation / function under study
    args,         \* argparse namespace: [text, file]
    stdin_isatty, \* sys.stdin.isatty()
    fields,       \* the field mapping of PaperFromBib
    local,        \* local variables of the function at pc
    stdout,       \* what was printed on standard output, in order
    stderr,       \* what was printed on the error stream, in order
    exit_status,  \* process exit status, -1 while the process runs
    calls         \* log of the calls made: [fn, arg, result]

vars == <<pc, args, stdin_isatty, fields, local, stdout, stderr, exit_status, calls>>

None == "None"

(***************************************************************************)
(* Characters and strings                                                  *)
(***************************************************************************)
Lower == <<"a","b","c","d","e","f","g","h","i","j","k","l","m",
           "n","o","p","q","r","s","t","u","v","w","x","y","z">>
Upper == <<"A","B","C","D","E","F","G","H","I","J","K","L","M",
           "N","O","P","Q","R","S","T","U","V","W","X","Y","Z">>

\* [A-Za-z]
Letters == {Lower[i] : i \in DOMAIN Lower} \cup {Upper[i] : i \in DOMAIN Upper}

\* \s of re and the characters str.strip() / str.split() treat as blank
Whitespace == {" ", "\t", "\n", "\r", "\f"}

\* the grave-accent character (ASCII 96), which a TLA+ string literal cannot hold
Backtick == "<backtick>"

StringsUpTo(A, n) == UNION {[1..k -> A] : k \in 0..n}

DropFirst(s, k) == SubSeq(s, k + 1, Len(s))

StartsWith(s, p) == Len(p) <= Len(s) /\ SubSeq(s, 1, Len(p)) = p

RECURSIVE Flatten(_)
Flatten(ss) == IF ss = <<>> THEN <<>> ELSE Head(ss) \o Flatten(Tail(ss))

RECURSIVE LStrip(_)
LStrip(s) ==
    IF s # <<>> /\ Head(s) \in Whitespace THEN LStrip(Tail(s)) ELSE s

RECURSIVE RStrip(_)
RStrip(s) ==
    IF s # <<>> /\ s[Len(s)] \in Whitespace
    THEN RStrip(SubSeq(s, 1, Len(s) - 1)) ELSE s

\* str.strip()
Strip(s) == RStrip(LStrip(s))

\* re.sub(r'\s+', ' ', s)
RECURSIVE CollapseSpaces(_)
CollapseSpaces(s) ==
    IF s = <<>> THEN <<>>
    ELSE IF Head(s) \in Whitespace
         THEN <<" ">> \o CollapseSpaces(LStrip(s))
         ELSE <<Head(s)>> \o CollapseSpaces(Tail(s))

(***************************************************************************)
(* _unescape_latex                                                         *)
(***************************************************************************)
\* s.replace('\n', ' ')
ReplaceNewlines(s) == [i \in 1..Len(s) |-> IF s[i] = "\n" THEN " " ELSE s[i]]

\* the accents dict, and accents.get(x, x)
accents ==
    [x \in {"a","e","i","o","u","A","E","I","O","U","n","N"} |->
        CASE x = "a" -> "á" [] x = "e" -> "é" [] x = "i" -> "í"
          [] x = "o" -> "ó" [] x = "u" -> "ú" [] x = "A" -> "Á"
          [] x = "E" -> "É" [] x = "I" -> "Í" [] x = "O" -> "Ó"
          [] x = "U" -> "Ú" [] x = "n" -> "ñ" [] x = "N" -> "Ñ"]

\* variant: the table without its n/N entries
AccentsGetVowels(x) == IF x \in DOMAIN accents \ {"n", "N"} THEN accents[x] ELSE x
AccentsGet(x) == IF x \in DOMAIN accents THEN accents[x] ELSE x

\* re.sub(r"\\'\\?([A-Za-z])", lambda m: accents.get(m.group(1), m.group(1)), s)
RECURSIVE SubAcute(_)
SubAcute(s) ==
    IF s = <<>> THEN <<>>
    ELSE IF Len(s) >= 4 /\ s[1] = "\\" /\ s[2] = "'" /\ s[3] = "\\" /\ s[4] \in Letters
         THEN <<AccentsGet(s[4])>> \o SubAcute(DropFirst(s, 4))
    ELSE IF Len(s) >= 3 /\ s[1] = "\\" /\ s[2] = "'" /\ s[3] \in Letters
         THEN <<AccentsGet(s[3])>> \o SubAcute(DropFirst(s, 3))
    ELSE <<Head(s)>> \o SubAcute(Tail(s))

\* re.sub of the grave pattern (backslash, backtick, one letter) by the letter
RECURSIVE SubGrave(_)
SubGrave(s) ==
    IF s = <<>> THEN <<>>
    ELSE IF Len(s) >= 3 /\ s[1] = "\\" /\ s[2] = Backtick /\ s[3] \in Letters
         THEN <<s[3]>> \o SubGrave(DropFirst(s, 3))
    ELSE <<Head(s)>> \o SubGrave(Tail(s))

\* re.sub(r"\\~([nN])", lambda m: "ñ" if m.group(1) == "n" else "Ñ", s)
RECURSIVE SubTilde(_)
SubTilde(s) ==
    IF s = <<>> THEN <<>>
    ELSE IF Len(s) >= 3 /\ s[1] = "\\" /\ s[2] = "~" /\ s[3] \in {"n", "N"}
         THEN <<IF s[3] = "n" THEN "ñ" ELSE "Ñ">> \o SubTilde(DropFirst(s, 3))
    ELSE <<Head(s)>> \o SubTilde(Tail(s))

\* {"o":"ö","O":"Ö"}.get(x, x)
UmlautGet(x) == IF x = "o" THEN "ö" ELSE IF x = "O" THEN "Ö" ELSE x

\* re.sub(r'\\"([A-Za-z])', lambda m: {"o":"ö","O":"Ö"}.get(m.group(1), m.group(1)), s)
RECURSIVE SubUmlaut(_)
SubUmlaut(s) ==
    IF s = <<>> THEN <<>>
    ELSE IF Len(s) >= 3 /\ s[1] = "\\" /\ s[2] = "\"" /\ s[3] \in Letters
         THEN <<UmlautGet(s[3])>> \o SubUmlaut(DropFirst(s, 3))
    ELSE <<Head(s)>> \o SubUmlaut(Tail(s))

\* s.replace('{', '').replace('}', '')
IsNotBrace(c) == c \notin {"{", "}"}
RemoveBraces(s) == SelectSeq(s, IsNotBrace)

\* variant: braces removed after the spaces are collapsed
TidyBracesSwapped(s) == RemoveBraces(Strip(CollapseSpaces(s)))
\* lines 31-35: remove residual braces, then collapse spaces and strip
Tidy(s) == Strip(CollapseSpaces(RemoveBraces(s)))

_unescape_latex(s) ==
    IF s = <<>> THEN s
    ELSE Tidy(SubUmlaut(SubTilde(SubGrave(SubAcute(ReplaceNewlines(s))))))

(***************************************************************************)
(* _format_authors_apa                                                     *)
(***************************************************************************)
\* variant: only the literal " and " separates
SepLenLiteral(s) ==
    IF StartsWith(s, <<" ", "a", "n", "d", " ">>) THEN 5 ELSE 0
\* length of the match of \s+and\s+ at the start of s, 0 when there is none
SepLen(s) ==
    IF s # <<>> /\ Head(s) \in Whitespace
    THEN LET r == LStrip(s)
         IN  IF StartsWith(r, <<"a", "n", "d">>) /\ Len(r) >= 4 /\ r[4] \in Whitespace
             THEN Len(s) - Len(LStrip(DropFirst(r, 3)))
             ELSE 0
    ELSE 0

RECURSIVE SplitFrom(_, _)
SplitFrom(cur, rest) ==
    IF rest = <<>> THEN <<cur>>
    ELSE LET m == SepLen(rest)
         IN  IF m > 0
             THEN <<cur>> \o SplitFrom(<<>>, DropFirst(rest, m))
             ELSE SplitFrom(Append(cur, Head(rest)), Tail(rest))

\* re.split(r'\s+and\s+', authors_field)
ReSplitAnd(s) == SplitFrom(<<>>, s)

\* str.split(): the maximal runs of non-blank characters
RECURSIVE TokensFrom(_, _)
TokensFrom(cur, rest) ==
    IF rest = <<>> THEN (IF cur = <<>> THEN <<>> ELSE <<cur>>)
    ELSE IF Head(rest) \in Whitespace
         THEN (IF cur = <<>> THEN <<>> ELSE <<cur>>) \o TokensFrom(<<>>, Tail(rest))
         ELSE TokensFrom(Append(cur, Head(rest)), Tail(rest))

Tokens(s) == TokensFrom(<<>>, s)

\* sep.join(items)
RECURSIVE Join(_, _)
Join(sep, items) ==
    IF items = <<>> THEN <<>>
    ELSE IF Len(items) = 1 THEN items[1]
    ELSE items[1] \o sep \o Join(sep, Tail(items))

\* index of the first comma of p, 0 when p has none
RECURSIVE FirstComma(_, _)
FirstComma(p, i) ==
    IF i > Len(p) THEN 0 ELSE IF p[i] = "," THEN i ELSE FirstComma(p, i + 1)

\* lines 65-72: (last, first) of one unescaped segment; tokens[-1] of an
\* empty token list raises IndexError
LastFirst(p) ==
    LET c == FirstComma(p, 1)
        tokens == Tokens(p)
    IN  IF c > 0
        THEN [raised |-> FALSE,
              last   |-> Strip(SubSeq(p, 1, c - 1)),
              first  |-> Strip(DropFirst(p, c))]
        ELSE IF Len(tokens) = 1
        THEN [raised |-> FALSE, last |-> tokens[1], first |-> <<>>]
        ELSE IF Len(tokens) = 0
        THEN [raised |-> TRUE, last |-> <<>>, first |-> <<>>]
        ELSE [raised |-> FALSE,
              last   |-> tokens[Len(tokens)],
              first  |-> Join(<<" ">>, SubSeq(tokens, 1, Len(tokens) - 1))]

\* lines 74-78: " X." for every token of first, stripped
Initials(first) ==
    LET toks == Tokens(first)
    IN  Strip(Flatten([i \in 1..Len(toks) |-> <<" ", toks[i][1], ".">>]))

\* lines 64-82: the body of the loop for one segment p
FormatName(p) ==
    LET lf == LastFirst(_unescape_latex(Strip(p)))
        initials == Initials(lf.first)
    IN  IF lf.raised THEN [raised |-> TRUE, name |-> <<>>]
        ELSE [raised |-> FALSE,
              name   |-> IF initials # <<>>
                         THEN lf.last \o <<",", " ">> \o initials
                         ELSE lf.last]

\* lines 83-87
JoinNames(names) ==
    IF Len(names) = 1 THEN names[1]
    ELSE IF Len(names) = 2 THEN names[1] \o <<",", " ", "&", " ">> \o names[2]
    ELSE Join(<<",", " ">>, SubSeq(names, 1, Len(names) - 1))
            \o <<",", " ", "&", " ">> \o names[Len(names)]

\* the whole function: raised when the loop raises at some segment
_format_authors_apa(authors_field) ==
    IF authors_field = <<>> THEN [raised |-> FALSE, value |-> <<>>]
    ELSE LET parts == ReSplitAnd(authors_field)
             formatted == [i \in 1..Len(parts) |-> FormatName(parts[i])]
         IN  IF \E i \in 1..Len(parts) : formatted[i].raised
             THEN [raised |-> TRUE, value |-> <<>>]
             ELSE [raised |-> FALSE,
                   value  |-> JoinNames([i \in 1..Len(parts) |-> formatted[i].name])]

(***************************************************************************)
(* _parse_bib_fields and PaperFromBib                                      *)
(***************************************************************************)
\* the empty dict
EmptyFields == [k \in {} |-> <<>>]

\* fields.get(k, '')
Get(f, k) == IF k \in DOMAIN f THEN f[k] ELSE <<>>

\* field names as an entry may write them, and str.lower() on them
WrittenKeys == {"Author", "YEAR", "title", "Journal", "volume", "Number"}

KeyLower(k) ==
    CASE k = "Author" -> "author" [] k = "YEAR" -> "year" [] k = "Journal" -> "journal"
      [] k = "Number" -> "number" [] OTHER -> k

\* {k.lower(): v for k, v in entry.items()}
LowerKeys(entry) ==
    [k \in {KeyLower(w) : w \in DOMAIN entry} |->
        entry[CHOOSE w \in DOMAIN entry : KeyLower(w) = k]]

\* What bibtexparser.loads(paper) does is outside this program: it raises, or
\* returns a database with no entry, or one whose first entry is a mapping.
Absent == <<"absent">>

S_Smith == <<"S", "m", "i", "t", "h">>
S_TwoAuthors ==
    <<"J","o","h","n"," ","S","m","i","t","h"," ","a","n","d"," ",
      "J","a","n","e"," ","D","o","e">>
S_Braces == <<"{", "}">>
S_Year == <<"2", "0", "2", "0">>
S_Title == <<"A", " ", " ", "S", "t", "u", "d", "y">>
S_Journal == <<"{", "J", "}">>

EntryValues(w) ==
    CASE w = "Author"  -> {Absent, <<>>, S_Braces, S_Smith, S_TwoAuthors}
      [] w = "YEAR"    -> {Absent, S_Braces, S_Year}
      [] w = "title"   -> {Absent, <<" ">>, S_Title}
      [] w = "Journal" -> {Absent, <<>>, S_Journal}
      [] w = "volume"  -> {Absent, S_Braces, <<"5">>}
      [] w = "Number"  -> {Absent, <<" ">>, <<"2">>}

EntryOf(e) == [w \in {x \in WrittenKeys : e[x] # Absent} |-> e[w]]

Entries ==
    {EntryOf([w \in WrittenKeys |->
                CASE w = "Author" -> a [] w = "YEAR" -> y [] w = "title" -> t
                  [] w = "Journal" -> j [] w = "volume" -> v [] w = "Number" -> n]) :
        a \in EntryValues("Author"), y \in EntryValues("YEAR"),
        t \in EntryValues("title"), j \in EntryValues("Journal"),
        v \in EntryValues("volume"), n \in EntryValues("Number")}

LoadsOutcomes ==
    {[kind |-> "raises"], [kind |-> "no_entries"]}
        \cup {[kind |-> "entries", first |-> e] : e \in Entries}

\* variant: the exception is swallowed without a diagnostic
_parse_bib_fields_silent(loads) ==
    CASE loads.kind = "entries" -> [fields |-> LowerKeys(loads.first), err |-> <<>>]
      [] OTHER -> [fields |-> EmptyFields, err |-> <<>>]
\* lines 38-55, given what loads does: the mapping returned and what is
\* printed on the error stream
_parse_bib_fields(loads) ==
    CASE loads.kind = "entries" -> [fields |-> LowerKeys(loads.first), err |-> <<>>]
      [] loads.kind = "no_entries" -> [fields |-> EmptyFields, err |-> <<>>]
      [] loads.kind = "raises" ->
            [fields |-> EmptyFields,
             err    |-> <<[kind |-> "Error parsing BibTeX with bibtexparser",
                            path |-> None, error |-> "Exception"]>>]

\* line 96-100: _unescape_latex(fields.get(k, '')).strip()
Field(f, k) == Strip(_unescape_latex(Get(f, k)))

\* variant: a number without volume follows the journal without a comma
JournalPartNoComma(journal, volume, number) ==
    LET vol_part == IF volume # <<>>
                    THEN (IF number # <<>>
                          THEN volume \o <<"(">> \o number \o <<")">>
                          ELSE volume)
                    ELSE IF number # <<>> THEN <<"(">> \o number \o <<")">>
                    ELSE <<>>
    IN  IF vol_part # <<>>
        THEN (IF journal # <<>>
              THEN (IF volume # <<>> THEN journal \o <<",", " ">> \o vol_part
                                     ELSE journal \o <<" ">> \o vol_part)
              ELSE vol_part)
        ELSE journal
\* lines 102-114
JournalPart(journal, volume, number) ==
    LET vol_part == IF volume # <<>>
                    THEN (IF number # <<>>
                          THEN volume \o <<"(">> \o number \o <<")">>
                          ELSE volume)
                    ELSE IF number # <<>> THEN <<"(">> \o number \o <<")">>
                    ELSE <<>>
    IN  IF vol_part # <<>>
        THEN (IF journal # <<>> THEN journal \o <<",", " ">> \o vol_part
                                ELSE vol_part)
        ELSE journal

\* lines 116-125
Assemble(authors, year, title, journal_part) ==
    Strip(CollapseSpaces(
        (IF authors # <<>> THEN authors \o <<" ">> ELSE <<>>)
        \o (IF year # <<>> THEN <<"(">> \o year \o <<")", ".", " ">> ELSE <<>>)
        \o (IF title # <<>> THEN title \o <<".", " ">> ELSE <<>>)
        \o (IF journal_part # <<>> THEN journal_part \o <<".">> ELSE <<>>)))

\* lines 95-125: the locals of PaperFromBib once line 125 is passed
Locals(f) ==
    LET journal == Field(f, "journal")
        volume  == Field(f, "volume")
        number  == Field(f, "number")
        jp      == JournalPart(journal, volume, number)
        authors == _format_authors_apa(Get(f, "author")).value
        year    == Field(f, "year")
        title   == Field(f, "title")
    IN  [authors |-> authors, year |-> year, title |-> title, journal |-> journal,
         volume |-> volume, number |-> number, journal_part |-> jp,
         apa |-> Assemble(authors, year, title, jp)]

(***************************************************************************)
(* main: one invocation of the program                                     *)
(***************************************************************************)
\* an opaque non-empty BibTeX text, and a path
BibText == "@article{key1, ...}"
BibFile == "refs.bib"

\* Python truthiness of an optional str
Truthy(x) == x # None /\ x # ""

NoLocals == [k \in {} |-> None]

Init ==
    /\ pc = "main"
    /\ args \in [text : {None, "", BibText}, file : {None, "", BibFile}]
    /\ stdin_isatty \in BOOLEAN
    /\ fields = EmptyFields
    /\ local = NoLocals
    /\ stdout = <<>>
    /\ stderr = <<>>
    /\ exit_status = -1
    /\ calls = <<>>

\* lines 135-137
MainText ==
    /\ pc = "main"
    /\ Truthy(args.text)
    /\ pc' = "PaperFromBib"
    /\ local' = [source |-> "text", paper |-> args.text]
    /\ calls' = Append(calls, [fn |-> "PaperFromBib", result |-> "text"])
    /\ UNCHANGED <<args, stdin_isatty, fields, stdout, stderr, exit_status>>

\* lines 139-142: open and read succeed
MainFile ==
    /\ pc = "main"
    /\ ~Truthy(args.text)
    /\ Truthy(args.file)
    /\ \E content \in {"", BibText} :
          local' = [source |-> "file", paper |-> content]
    /\ pc' = "PaperFromBib"
    /\ calls' = calls \o <<[fn |-> "open", result |-> "ok"],
                           [fn |-> "PaperFromBib", result |-> "file"]>>
    /\ UNCHANGED <<args, stdin_isatty, fields, stdout, stderr, exit_status>>

\* variant: the failure is swallowed and the process ends normally
MainFileFailsSilently ==
    /\ pc = "main"
    /\ ~Truthy(args.text)
    /\ Truthy(args.file)
    /\ \E e \in {"FileNotFoundError", "PermissionError", "UnicodeDecodeError"} :
          calls' = Append(calls, [fn |-> "open", result |-> e])
    /\ exit_status' = 0
    /\ pc' = "exited"
    /\ UNCHANGED <<args, stdin_isatty, fields, local, stdout, stderr>>
\* lines 139-146: open or read raises
MainFileFails ==
    /\ pc = "main"
    /\ ~Truthy(args.text)
    /\ Truthy(args.file)
    /\ \E e \in {"FileNotFoundError", "PermissionError", "UnicodeDecodeError"} :
          /\ calls' = Append(calls, [fn |-> "open", result |-> e])
          /\ stderr' = Append(stderr,
                [kind |-> "Error reading", path |-> args.file, error |-> e])
    /\ exit_status' = 1
    /\ pc' = "exited"
    /\ UNCHANGED <<args, stdin_isatty, fields, local, stdout>>

\* lines 149-151
MainStdin ==
    /\ pc = "main"
    /\ ~Truthy(args.text)
    /\ ~Truthy(args.file)
    /\ ~stdin_isatty
    /\ \E content \in {"", BibText} :
          local' = [source |-> "stdin", paper |-> content]
    /\ pc' = "PaperFromBib"
    /\ calls' = calls \o <<[fn |-> "stdin.read", result |-> "ok"],
                           [fn |-> "PaperFromBib", result |-> "stdin"]>>
    /\ UNCHANGED <<args, stdin_isatty, fields, stdout, stderr, exit_status>>

\* lines 153-154
MainHelp ==
    /\ pc = "main"
    /\ ~Truthy(args.text)
    /\ ~Truthy(args.file)
    /\ stdin_isatty
    /\ stdout' = Append(stdout, [kind |-> "help", text |-> <<>>])
    /\ calls' = Append(calls, [fn |-> "print_help", result |-> "ok"])
    /\ exit_status' = 0
    /\ pc' = "exited"
    /\ UNCHANGED <<args, stdin_isatty, fields, local, stderr>>

\* lines 93, 39-41: an empty text is not handed to the parser
ParseEmpty ==
    /\ pc = "PaperFromBib"
    /\ local.paper = ""
    /\ fields' = EmptyFields
    /\ pc' = "format"
    /\ UNCHANGED <<args, stdin_isatty, local, stdout, stderr, exit_status, calls>>

\* lines 93, 43-55
ParseLoads ==
    /\ pc = "PaperFromBib"
    /\ local.paper # ""
    /\ \E loads \in LoadsOutcomes :
          LET r == _parse_bib_fields(loads)
          IN  /\ fields' = r.fields
              /\ stderr' = stderr \o r.err
              /\ calls' = Append(calls, [fn |-> "bibtexparser.loads", result |-> loads.kind])
    /\ pc' = "format"
    /\ UNCHANGED <<args, stdin_isatty, local, stdout, exit_status>>

\* lines 95-126, then main returns: exit status 0
FormatPrints ==
    /\ pc = "format"
    /\ ~_format_authors_apa(Get(fields, "author")).raised
    /\ local' = local @@ Locals(fields)
    /\ stdout' = Append(stdout, [kind |-> "line", text |-> Locals(fields).apa])
    /\ exit_status' = 0
    /\ pc' = "exited"
    /\ UNCHANGED <<args, stdin_isatty, fields, stderr, calls>>

\* line 95 raises IndexError (line 72): main's handler of the file branch
\* (lines 143-145) reports it; elsewhere the interpreter prints the traceback.
\* Either way the exit status is 1.
FormatRaises ==
    /\ pc = "format"
    /\ _format_authors_apa(Get(fields, "author")).raised
    /\ stderr' = Append(stderr,
          IF local.source = "file"
          THEN [kind |-> "Error reading", path |-> args.file, error |-> "IndexError"]
          ELSE [kind |-> "Traceback", path |-> None, error |-> "IndexError"])
    /\ exit_status' = 1
    /\ pc' = "exited"
    /\ UNCHANGED <<args, stdin_isatty, fields, local, stdout, calls>>

Next ==
    \/ MainText
    \/ MainFile
    \/ MainFileFails
    \/ MainStdin
    \/ MainHelp
    \/ ParseEmpty
    \/ ParseLoads
    \/ FormatPrints
    \/ FormatRaises

Spec == Init /\ [][Next]_vars

(***************************************************************************)
(* _unescape_latex applied once, and again to its own result               *)
(***************************************************************************)
MaxUnescapeLen == 4

UnescapeAlphabet == {"\\", "'", Backtick, "\"", "~", "a", "n", "{", " ", "\n"}

\* every accent macro over every letter x: \'x  \'\x  the grave form  \~x  \"x
MacroInputs ==
    UNION {{<<"\\", "'", x>>, <<"\\", "'", "\\", x>>, <<"\\", Backtick, x>>,
            <<"\\", "~", x>>, <<"\\", "\"", x>>} : x \in Letters}

UnescapeInputs == MacroInputs \cup StringsUpTo(UnescapeAlphabet, MaxUnescapeLen)

Idle ==
    /\ args = [text |-> None, file |-> None]
    /\ stdin_isatty = TRUE
    /\ fields = EmptyFields
    /\ stdout = <<>>
    /\ stderr = <<>>
    /\ exit_status = -1
    /\ calls = <<>>

StaysIdle == UNCHANGED <<args, stdin_isatty, fields, stdout, stderr, exit_status, calls>>

InitUnescape ==
    /\ pc = "_unescape_latex"
    /\ \E s \in UnescapeInputs : local = [s |-> s]
    /\ Idle

UnescapeOnce ==
    /\ pc = "_unescape_latex"
    /\ local' = [s |-> local.s, once |-> _unescape_latex(local.s)]
    /\ pc' = "again"
    /\ StaysIdle

UnescapeTwice ==
    /\ pc = "again"
    /\ local' = [s |-> local.s, once |-> local.once, twice |-> _unescape_latex(local.once)]
    /\ pc' = "done"
    /\ StaysIdle

NextUnescape ==
    \/ UnescapeOnce
    \/ UnescapeTwice

SpecUnescape == InitUnescape /\ [][NextUnescape]_vars

(***************************************************************************)
(* _format_authors_apa, one loop iteration per step                        *)
(***************************************************************************)
MaxAuthorTokens == 5

AuthorTokens ==
    {<<" ">>, <<"\n">>, <<"a", "n", "d">>, <<",">>, <<"J", "o">>, <<"{", "}">>}

\* the author fields of the documented examples
AuthorSamples ==
    {S_Smith, S_TwoAuthors,
     <<"S","m","i","t","h",","," ","J","o","h","n">>,
     <<"A"," ","B"," ","a","n","d"," ","C"," ","D"," ","a","n","d"," ","E"," ","F">>}

AuthorInputs ==
    AuthorSamples \cup
        {Flatten(ts) : ts \in StringsUpTo(AuthorTokens, MaxAuthorTokens)}

InitAuthors ==
    /\ pc = "_format_authors_apa"
    /\ \E a \in AuthorInputs : local = [authors_field |-> a]
    /\ Idle

\* lines 58-59
AuthorsEmpty ==
    /\ pc = "_format_authors_apa"
    /\ local.authors_field = <<>>
    /\ local' = [authors_field |-> local.authors_field, result |-> <<>>]
    /\ pc' = "returned"
    /\ StaysIdle

\* lines 61-62
AuthorsSplit ==
    /\ pc = "_format_authors_apa"
    /\ local.authors_field # <<>>
    /\ local' = [authors_field |-> local.authors_field,
                 parts |-> ReSplitAnd(local.authors_field),
                 names |-> <<>>]
    /\ pc' = "loop"
    /\ StaysIdle

\* lines 63-82, one segment
AuthorsFormatPart ==
    /\ pc = "loop"
    /\ Len(local.names) < Len(local.parts)
    /\ LET r == FormatName(local.parts[Len(local.names) + 1])
       IN  /\ ~r.raised
           /\ local' = [local EXCEPT !.names = Append(@, r.name)]
    /\ pc' = "loop"
    /\ StaysIdle

\* line 72 on a segment without tokens: IndexError leaves the function
AuthorsIndexError ==
    /\ pc = "loop"
    /\ Len(local.names) < Len(local.parts)
    /\ FormatName(local.parts[Len(local.names) + 1]).raised
    /\ local' = local
    /\ pc' = "raised"
    /\ StaysIdle

\* lines 83-87
AuthorsJoin ==
    /\ pc = "loop"
    /\ Len(local.names) = Len(local.parts)
    /\ local' = local @@ [result |-> JoinNames(local.names)]
    /\ pc' = "returned"
    /\ StaysIdle

NextAuthors ==
    \/ AuthorsEmpty
    \/ AuthorsSplit
    \/ AuthorsFormatPart
    \/ AuthorsIndexError
    \/ AuthorsJoin

SpecAuthors == InitAuthors /\ [][NextAuthors]_vars

(***************************************************************************)
(* Properties                                                              *)
(***************************************************************************)
Called(fn) == \E i \in DOMAIN calls : calls[i].fn = fn

CalledWith(fn, result) ==
    \E i \in DOMAIN calls : calls[i].fn = fn /\ calls[i].result = result

Printed == Len(stdout) = 1 /\ stdout[1].kind = "line"

\* the formatted parts of the reference, each with its own punctuation
C1_Parts ==
    <<IF local.authors # <<>> THEN local.authors \o <<" ">> ELSE <<>>,
      IF local.year # <<>> THEN <<"(">> \o local.year \o <<")", ".", " ">> ELSE <<>>,
      IF local.title # <<>> THEN local.title \o <<".", " ">> ELSE <<>>,
      IF local.journal_part # <<>> THEN local.journal_part \o <<".">> ELSE <<>>>>

\* C1: for every field mapping, PaperFromBib prints one line: the non-empty
\* parts (authors, year, title, journal part) in that order, each with its own
\* punctuation, whitespace runs collapsed and the ends trimmed; empty parts
\* contribute nothing, and a mapping of empty fields prints an empty line.
C1_PrintsConcatenation ==
    (pc = "exited" /\ Called("PaperFromBib")) =>
        /\ Printed
        /\ stdout[1].text = Strip(CollapseSpaces(Flatten(C1_Parts)))
        /\ (\A k \in DOMAIN fields : _unescape_latex(fields[k]) = <<>>)
              => stdout[1].text = <<>>

\* C2: formatting never raises: _format_authors_apa returns a string for
\* every value of the author field, an empty segment included.
C2_NeverRaises == pc # "raised"

\* C3: when bibtexparser raises, in any input mode, the failure is caught: the
\* diagnostic goes to the error stream, the field mapping is empty, and the
\* process ends with exactly one empty line on standard output and status 0.
C3_ParseFailureRecovered ==
    CalledWith("bibtexparser.loads", "raises") =>
        /\ fields = EmptyFields
        /\ stderr = <<[kind |-> "Error parsing BibTeX with bibtexparser",
                       path |-> None, error |-> "Exception"]>>
        /\ pc \in {"format", "exited"}
        /\ pc = "format" => stdout = <<>>
        /\ pc = "exited" =>
              /\ stdout = <<[kind |-> "line", text |-> <<>>]>>
              /\ exit_status = 0

C3_Witness ==
    /\ CalledWith("bibtexparser.loads", "raises")
    /\ pc = "exited"
    /\ local.source = "file"

\* C4: when the file argument is the input source and opening or reading it
\* fails, the error stream gets a message with the path and the error, nothing
\* is written to standard output, the status is 1, and neither the parser nor
\* the formatter runs.
C4_FileFailureIsFatal ==
    \A i \in DOMAIN calls :
        (calls[i].fn = "open" /\ calls[i].result # "ok") =>
            /\ pc = "exited"
            /\ exit_status = 1
            /\ stdout = <<>>
            /\ stderr = <<[kind |-> "Error reading", path |-> args.file,
                           error |-> calls[i].result]>>
            /\ ~Called("PaperFromBib")
            /\ ~Called("bibtexparser.loads")

C4_Witness ==
    /\ CalledWith("open", "FileNotFoundError")
    /\ pc = "exited"
    /\ exit_status = 1

\* C5: one input source per invocation, by fixed priority: --text whenever it
\* is supplied (whatever its value), and then neither file nor standard input
\* is read; else the file when a file argument is given; else standard input
\* when it is not a terminal; else the help text with status 0.  (An empty
\* path is read here as no file argument.)
C5_SourcePriority ==
    pc = "exited" =>
        /\ args.text # None =>
              /\ CalledWith("PaperFromBib", "text")
              /\ ~Called("open") /\ ~Called("stdin.read") /\ ~Called("print_help")
        /\ (args.text = None /\ Truthy(args.file)) =>
              /\ Called("open")
              /\ ~Called("stdin.read") /\ ~Called("print_help")
        /\ (args.text = None /\ ~Truthy(args.file) /\ ~stdin_isatty) =>
              /\ CalledWith("PaperFromBib", "stdin")
              /\ ~Called("open") /\ ~Called("print_help")
        /\ (args.text = None /\ ~Truthy(args.file) /\ stdin_isatty) =>
              /\ stdout = <<[kind |-> "help", text |-> <<>>]>>
              /\ exit_status = 0
              /\ ~Called("PaperFromBib")

\* an accent macro that a pass of _unescape_latex rewrites starts at s[i]
MacroAt(s, i) ==
    /\ i + 2 <= Len(s)
    /\ s[i] = "\\"
    /\ \/ s[i + 1] \in {"'", Backtick, "\""} /\ s[i + 2] \in Letters
       \/ s[i + 1] = "'" /\ s[i + 2] = "\\" /\ i + 3 <= Len(s) /\ s[i + 3] \in Letters
       \/ s[i + 1] = "~" /\ s[i + 2] \in {"n", "N"}

HasMacro(s) == \E i \in 1..Len(s) : MacroAt(s, i)

\* C6 as stated: for every input, a second pass of _unescape_latex changes
\* nothing.
C6_Idempotent == pc = "done" => local.twice = local.once

\* C6: a second pass of _unescape_latex changes nothing whenever the result of
\* the first pass holds no accent macro.
C6_IdempotentWithoutMacros ==
    (pc = "done" /\ ~HasMacro(local.once)) => local.twice = local.once

C6_Witness ==
    /\ pc = "done"
    /\ local.s = <<"{", "\\", "'", "a">>
    /\ local.once = <<"á">>
    /\ local.twice = <<"á">>

C7_Acute(x) ==
    CASE x = "a" -> "á" [] x = "e" -> "é" [] x = "i" -> "í" [] x = "o" -> "ó"
      [] x = "u" -> "ú" [] x = "A" -> "Á" [] x = "E" -> "É" [] x = "I" -> "Í"
      [] x = "O" -> "Ó" [] x = "U" -> "Ú" [] x = "n" -> "ñ" [] x = "N" -> "Ñ"
      [] OTHER -> x

\* C7: for every letter x, \'x and \'\x give the acute character of the table
\* (ñ/Ñ for n/N, the bare letter outside the table); \~n and \~N give ñ and Ñ;
\* \"o and \"O give ö and Ö and \"x the bare letter otherwise; the grave macro
\* gives the bare letter.
C7_AccentTable ==
    pc # "_unescape_latex" =>
        \A x \in Letters :
            /\ local.s \in {<<"\\", "'", x>>, <<"\\", "'", "\\", x>>}
                  => local.once = <<C7_Acute(x)>>
            /\ local.s = <<"\\", "~", x>> /\ x = "n" => local.once = <<"ñ">>
            /\ local.s = <<"\\", "~", x>> /\ x = "N" => local.once = <<"Ñ">>
            /\ local.s = <<"\\", "\"", x>> =>
                  local.once = <<IF x = "o" THEN "ö" ELSE IF x = "O" THEN "Ö" ELSE x>>
            /\ local.s = <<"\\", Backtick, x>> => local.once = <<x>>

C7_Witness ==
    /\ pc = "again"
    /\ local.s = <<"\\", "'", "\\", "N">>
    /\ local.once = <<"Ñ">>

\* "Last, Initials" or "Last" of the names, joined the documented way
C8_Joined(names) ==
    IF Len(names) = 1 THEN names[1]
    ELSE Join(<<",", " ">>, SubSeq(names, 1, Len(names) - 1))
            \o <<",", " ", "&", " ">> \o names[Len(names)]

\* C8: every non-empty author field of n segments yields n formatted names in
\* segment order, joined as A / "A, & B" / "A, B, ..., & Z"; "John Smith and
\* Jane Doe" gives "Smith, J., & Doe, J." and "Smith" gives "Smith".
C8_JoinsAllSegments ==
    (pc \in {"returned", "raised"} /\ local.authors_field # <<>>) =>
        /\ pc = "returned"
        /\ Len(local.names) = Len(local.parts)
        /\ local.result = C8_Joined(local.names)
        /\ local.authors_field = S_Smith => local.result = S_Smith
        /\ local.authors_field = S_TwoAuthors =>
              local.result = <<"S","m","i","t","h",","," ","J",".",","," ","&"," ",
                               "D","o","e",","," ","J",".">>

\* the segment for a non-empty volume or number: after "journal, " when
\* there is a journal, alone when there is none
C9_AfterJournal(journal, vol_part) ==
    IF journal # <<>> THEN journal \o <<",", " ">> \o vol_part ELSE vol_part

\* C9 as stated: "journal, volume(number)", "journal, volume", and for a
\* number without volume "journal (number)", with no comma.
C9_JournalSegment ==
    Printed =>
        local.journal_part =
            IF local.volume # <<>> /\ local.number # <<>>
            THEN C9_AfterJournal(local.journal,
                    local.volume \o <<"(">> \o local.number \o <<")">>)
            ELSE IF local.volume # <<>>
            THEN C9_AfterJournal(local.journal, local.volume)
            ELSE IF local.number # <<>>
            THEN (IF local.journal # <<>>
                  THEN local.journal \o <<" ", "(">> \o local.number \o <<")">>
                  ELSE <<"(">> \o local.number \o <<")">>)
            ELSE local.journal

\* C9: the journal segment is "journal, volume(number)" when volume and number
\* are present, "journal, volume" when only volume is, "journal, (number)"
\* (after a comma, like the others) when only number is, and the journal alone
\* when neither is; an empty journal leaves just the part after "journal, ".
C9_JournalSegmentAmended ==
    Printed =>
        local.journal_part =
            IF local.volume # <<>> /\ local.number # <<>>
            THEN C9_AfterJournal(local.journal,
                    local.volume \o <<"(">> \o local.number \o <<")">>)
            ELSE IF local.volume # <<>>
            THEN C9_AfterJournal(local.journal, local.volume)
            ELSE IF local.number # <<>>
            THEN C9_AfterJournal(local.journal, <<"(">> \o local.number \o <<")">>)
            ELSE local.journal

C9_Witness ==
    /\ Printed
    /\ local.journal = <<"J">>
    /\ local.volume = <<>>
    /\ local.number = <<"2">>
    /\ local.journal_part = <<"J", ",", " ", "(", "2", ")">>

\* str.split(" and ") of s
RECURSIVE C10_LiteralSplitFrom(_, _)
C10_LiteralSplitFrom(cur, rest) ==
    IF rest = <<>> THEN <<cur>>
    ELSE IF StartsWith(rest, <<" ", "a", "n", "d", " ">>)
         THEN <<cur>> \o C10_LiteralSplitFrom(<<>>, DropFirst(rest, 5))
         ELSE C10_LiteralSplitFrom(Append(cur, Head(rest)), Tail(rest))

C10_HasSeparator(p) ==
    \E i \in 1..(Len(p) - 4) :
        /\ p[i] \in Whitespace
        /\ SubSeq(p, i + 1, i + 3) = <<"a", "n", "d">>
        /\ p[i + 4] \in Whitespace

\* s is parts[1], a run of blanks, "and", a run of blanks, parts[2], ...
\* where each run of blanks is as long as it can be
RECURSIVE C10_Reassembles(_, _)
C10_Reassembles(s, parts) ==
    /\ StartsWith(s, parts[1])
    /\ LET rest == DropFirst(s, Len(parts[1]))
           word == LStrip(rest)
       IN  IF Len(parts) = 1 THEN rest = <<>>
           ELSE /\ rest # <<>> /\ rest[1] \in Whitespace
                /\ parts[1] = <<>> \/ parts[1][Len(parts[1])] \notin Whitespace
                /\ StartsWith(word, <<"a", "n", "d">>)
                /\ Len(word) >= 4 /\ word[4] \in Whitespace
                /\ C10_Reassembles(LStrip(DropFirst(word, 3)), Tail(parts))

=============================================================================
